---- MODULE Spec2Model ----
(***************************************************************************)
(* Out-of-core squaring of a big integer kept as a little-endian sequence  *)
(* of one-byte blocks in a file (src/prototype.py).                        *)
(*                                                                         *)
(* A file is a sequence of blocks; block pos of the source (0-based) is    *)
(* element pos + 1 of the sequence.  CHUNK_SIZE is 1, so a block is one    *)
(* byte and the byte offset pos * CHUNK_SIZE is the block index.           *)
(*                                                                         *)
(* Python's unbounded int is modelled, where it can grow beyond a machine  *)
(* word (the argument of num_to_file, the result of file_to_num), as a     *)
(* little-endian sequence of decimal digits without a leading zero digit   *)
(* (0 is the empty sequence).  The ints local to square stay small and     *)
(* are plain integers.                                                     *)
(***************************************************************************)
EXTENDS Integers, Sequences, FiniteSets, TLC

CHUNK_SIZE == 1

\* Line 86: range(6).
Rounds == 6

BLOCK_MASK == 2 ^ (CHUNK_SIZE * 8) - 1

\* ------------------------------------------------------------------ bounds

\* Largest integer handed to num_to_file in the unit harness.
MaxN == 300

\* Longest operand file handed to square directly in the unit harness.
MaxSize == 4

\* Longest operand file of the measuring harness.
MaxPairSize == 3

\* Largest block index used by the block-store harness.
MaxPos == 2

\* Number of read_block / write_block calls the block-store harness makes.
MaxOps == 4

\* Capacity of the medium, in blocks.
MaxBlocks == 40

\* Block values the harnesses draw operand blocks from: zero, a block whose
\* square fits a block (1, 3), the smallest block whose square carries, and
\* the largest block.
BlockVals == {0, 1, 3, 16, 255}

\* Ints of three and four blocks the unit harness hands to num_to_file beside
\* 0..MaxN.
Landmarks == {2 ^ 16 - 1, 2 ^ 16, 2 ^ 24 - 1, 2 ^ 24 + 3}

\* Values the block-store harness hands to write_block, some above BLOCK_MASK.
WriteVals == {0, 1, BLOCK_MASK, BLOCK_MASK + 1, 2 * BLOCK_MASK + 1}

\* ------------------------------------------------- Python int, unbounded

RECURSIVE IntOf(_)
\* The int with the value of the natural number x.
IntOf(x) == IF x = 0 THEN << >> ELSE << x % 10 >> \o IntOf(x \div 10)

RECURSIVE AddC(_, _, _)
AddC(a, b, c) ==
    IF a = << >> /\ b = << >>
    THEN IntOf(c)
    ELSE LET da == IF a = << >> THEN 0 ELSE Head(a)
             db == IF b = << >> THEN 0 ELSE Head(b)
             ta == IF a = << >> THEN << >> ELSE Tail(a)
             tb == IF b = << >> THEN << >> ELSE Tail(b)
             s  == da + db + c
         IN  << s % 10 >> \o AddC(ta, tb, s \div 10)

\* a + b
IntAdd(a, b) == AddC(a, b, 0)

RECURSIVE MulC(_, _, _)
MulC(a, m, c) ==
    IF a = << >>
    THEN IntOf(c)
    ELSE LET s == Head(a) * m + c
         IN  << s % 10 >> \o MulC(Tail(a), m, s \div 10)

\* a * m, m a small natural number
IntMulSmall(a, m) == IF m = 0 THEN << >> ELSE MulC(a, m, 0)

RECURSIVE IntShl(_, _)
\* a << bits, 24 bits at a time
IntShl(a, bits) ==
    IF bits <= 24
    THEN IntMulSmall(a, 2 ^ bits)
    ELSE IntShl(IntMulSmall(a, 2 ^ 24), bits - 24)

RECURSIVE DivMod(_, _)
\* Quotient (an int) and remainder (a natural number) of a by the small d.
DivMod(a, d) ==
    IF a = << >>
    THEN [q |-> << >>, r |-> 0]
    ELSE LET hi  == DivMod(Tail(a), d)
             cur == hi.r * 10 + Head(a)
             qd  == cur \div d
         IN  [q |-> IF hi.q = << >> /\ qd = 0 THEN << >> ELSE << qd >> \o hi.q,
              r |-> cur % d]

\* a >> bits
IntShr(a, bits) == DivMod(a, 2 ^ bits).q

\* a & mask, mask of the form 2^w - 1
IntAnd(a, mask) == DivMod(a, mask + 1).r

RECURSIVE IntMul(_, _)
\* a * b, the product the claims compare a decoded result with
IntMul(a, b) ==
    IF a = << >> \/ b = << >>
    THEN << >>
    ELSE LET rest == IntMul(a, Tail(b))
         IN  IntAdd(IntMulSmall(a, Head(b)),
                    IF rest = << >> THEN << >> ELSE << 0 >> \o rest)

RECURSIVE Reverse(_)
Reverse(s) == IF s = << >> THEN << >> ELSE Reverse(Tail(s)) \o << Head(s) >>

\* The int written in decimal as the digits ds, most significant first.
Decimal(ds) == Reverse(ds)

\* ------------------------------------------------------------ block store

\* read_block returning the last block at or past the end of file.
read_block_clamped(file, pos) ==
    IF pos < Len(file) THEN file[pos + 1]
    ELSE IF Len(file) > 0 THEN file[Len(file)] ELSE 0

\* read_block's return value: the block at pos, 0 at or past the end of file.
read_block(file, pos) == IF pos < Len(file) THEN file[pos + 1] ELSE 0

\* value.to_bytes(CHUNK_SIZE, "little") raises OverflowError for a value
\* that does not fit CHUNK_SIZE bytes.
Overflows(value) == value < 0 \/ value > BLOCK_MASK

RECURSIVE Zeros(_)
Zeros(m) == IF m <= 0 THEN << >> ELSE << 0 >> \o Zeros(m - 1)

\* write_block without the seek: the block goes to the end of the file.
write_block_no_seek(file, pos, value) ==
    IF Overflows(value) THEN file ELSE file \o << value >>

\* The file after write_block(file, pos, value): seek to pos, then write the
\* block there; a seek past the end leaves a hole that reads as zero.  The
\* file is left alone when to_bytes raises.
write_block(file, pos, value) ==
    IF Overflows(value) THEN file
    ELSE IF pos < Len(file) THEN [file EXCEPT ![pos + 1] = value]
    ELSE file \o Zeros(pos - Len(file)) \o << value >>

get_file_size(file) == Len(file) \div CHUNK_SIZE

\* ------------------------------------------------------------------ codec

RECURSIVE FileToNumLoop(_, _, _)
FileToNumLoop(file, idx, res) ==
    IF idx >= get_file_size(file)
    THEN res
    ELSE FileToNumLoop(file, idx + 1,
             IntAdd(res, IntShl(IntOf(read_block(file, idx)), CHUNK_SIZE * 8 * idx)))

\* file_to_num's return value.
file_to_num(file) == FileToNumLoop(file, 0, << >>)

RECURSIVE num_to_file_msb_first(_)
\* num_to_file writing the most significant block first.
num_to_file_msb_first(m) ==
    IF m = << >>
    THEN << >>
    ELSE num_to_file_msb_first(IntShr(m, CHUNK_SIZE * 8)) \o << IntAnd(m, BLOCK_MASK) >>

RECURSIVE num_to_file(_)
\* The file num_to_file leaves.
num_to_file(m) ==
    IF m = << >>
    THEN << >>
    ELSE << IntAnd(m, BLOCK_MASK) >> \o num_to_file(IntShr(m, CHUNK_SIZE * 8))

\* ------------------------------------------------------------------ state

VARIABLES
    num,        \* contents of num.bin, the operand file
    result,     \* contents of result.bin, the output file
    reads,      \* global reads
    writes,     \* global writes
    pc,         \* position of the program
    n,          \* the int handed to num_to_file
    fromInt,    \* whether num.bin was written by num_to_file
    round,      \* the driving loop's index (line 86)
    size, i, j, k, carry, block_i, block_j, existing,   \* locals of square
    res,        \* the last value file_to_num returned
    outReads,   \* history: read_block calls on the output file
    tailSteps,  \* history: iterations of the carry loop (lines 54-60)
    lastAcc,    \* history: the last read_block / write_block on the output file
    prev        \* history: size and counters of the previous measured call

files    == << num, result >>
counters == << reads, writes, outReads, tailSteps >>
locals   == << size, i, j, k, carry, block_i, block_j, existing >>
harness  == << n, fromInt, round, res, prev >>
vars     == << files, counters, locals, harness, lastAcc, pc >>

NoAcc == [op |-> "none", pos |-> 0, val |-> 0]

NoPrev == [size |-> -1, reads |-> 0, writes |-> 0]

\* Every file of at most MaxSize blocks drawn from BlockVals.
RawStores == UNION { [1..m -> BlockVals] : m \in 0..MaxSize }

\* Lines 64-65 and the locals before square runs.
Fresh ==
    /\ reads = 0 /\ writes = 0 /\ outReads = 0 /\ tailSteps = 0
    /\ size = 0 /\ i = 0 /\ j = 0 /\ k = 0 /\ carry = 0
    /\ block_i = 0 /\ block_j = 0 /\ existing = 0
    /\ result = << >> /\ res = << >> /\ round = 0
    /\ lastAcc = NoAcc /\ prev = NoPrev

\* The unit harness: num_to_file(n) for an int n, or an operand file that
\* is already there.
Init ==
    /\ Fresh
    /\ \/ /\ pc = "main" /\ fromInt = TRUE /\ num = << >>
          /\ n \in { IntOf(x) : x \in (0..MaxN) \cup Landmarks }
       \/ /\ pc = "call" /\ fromInt = FALSE /\ n = << >>
          /\ num \in RawStores

\* ----------------------------------------------------------------- square

\* Line 45 without the block already in the output file.
BlockProd_no_existing(bi, bj, c, e) == bi * bj + c

\* Line 45.
BlockProd(bi, bj, c, e) == bi * bj + c + e

\* Line 46 (and line 58): the low block of a sum.
LowBlock(v) == v % (BLOCK_MASK + 1)

\* Line 47 (and line 57): the carry out of a sum.
CarryOut(v) == v \div (2 ^ (CHUNK_SIZE * 8))

\* Lines 36-39 without the doubling.
SecondFactor_not_doubled(file, bi, ii, jj) ==
    IF ii # jj THEN read_block(file, jj) ELSE bi

\* Lines 36-39: the second factor; an off-diagonal block is read and doubled.
SecondFactor(file, bi, ii, jj) ==
    IF ii # jj THEN 2 * read_block(file, jj) ELSE bi

\* Line 35 over the full square, not the upper triangle.
InnerStart_full_square(ii) == 0

\* Line 35: where the inner loop starts.
InnerStart(ii) == ii

\* Line 53 starting one block too far.
TailStart_off_by_one(ii, sz) == ii + sz + 1

\* Line 53: where the carry loop starts.
TailStart(ii, sz) == ii + sz

\* Line 54 as a loop whose body runs at least once.
TailCond_do_while(c, kk, ii, sz) == c > 0 \/ kk = ii + sz

\* Line 54 with >= for >.
TailCond_never_false(c, kk, ii, sz) == c >= 0

\* Line 54: the carry loop's condition.
TailCond(c, kk, ii, sz) == c > 0

\* A write_block that cannot go through: to_bytes raises, or the medium is full.
WriteFails(pos, value) == Overflows(value) \/ pos >= MaxBlocks

\* Lines 28-29: open both files (wb+ truncates the output) and take the size.
SquareOpen ==
    /\ pc = "call"
    /\ result' = << >>
    /\ size' = get_file_size(num)
    /\ i' = 0
    /\ pc' = "outer"
    /\ UNCHANGED << num, counters, j, k, carry, block_i, block_j, existing,
                    harness, lastAcc >>

\* Lines 31-33: the outer loop's head and the read of block i; past the last
\* block the with statement closes the files and square returns.
OuterHead ==
    /\ pc = "outer"
    /\ IF i < size
       THEN /\ block_i' = read_block(num, i)
            /\ reads' = reads + 1
            /\ carry' = 0
            /\ j' = InnerStart(i)
            /\ pc' = "inner"
       ELSE /\ pc' = "returned"
            /\ UNCHANGED << block_i, reads, carry, j >>
    /\ UNCHANGED << files, writes, outReads, tailSteps, size, i, k, block_j,
                    existing, harness, lastAcc >>

\* Lines 35-39: the inner loop's head and the second factor; past the last
\* block, line 53.
InnerHead ==
    /\ pc = "inner"
    /\ IF j < size
       THEN /\ block_j' = SecondFactor(num, block_i, i, j)
            /\ reads' = reads + (IF i # j THEN 1 ELSE 0)
            /\ pc' = "inner_read"
            /\ k' = k
       ELSE /\ k' = TailStart(i, size)
            /\ pc' = "tail"
            /\ UNCHANGED << block_j, reads >>
    /\ UNCHANGED << files, writes, outReads, tailSteps, size, i, j, carry,
                    block_i, existing, harness, lastAcc >>

\* Line 42.
InnerRead ==
    /\ pc = "inner_read"
    /\ existing' = read_block(result, i + j)
    /\ reads' = reads + 1
    /\ outReads' = outReads + 1
    /\ lastAcc' = [op |-> "read", pos |-> i + j, val |-> existing']
    /\ pc' = "inner_write"
    /\ UNCHANGED << files, writes, tailSteps, size, i, j, k, carry, block_i,
                    block_j, harness >>

\* Lines 45-50.
InnerWrite ==
    /\ pc = "inner_write"
    /\ LET block_prod == BlockProd(block_i, block_j, carry, existing)
           product    == LowBlock(block_prod)
       IN  /\ carry' = CarryOut(block_prod)
           /\ writes' = writes + 1
           /\ lastAcc' = [op |-> "write", pos |-> i + j, val |-> product]
           /\ IF WriteFails(i + j, product)
              THEN /\ pc' = "raised"
                   /\ UNCHANGED << result, j >>
              ELSE /\ result' = write_block(result, i + j, product)
                   /\ j' = j + 1
                   /\ pc' = "inner"
    /\ UNCHANGED << num, reads, outReads, tailSteps, size, i, k, block_i,
                    block_j, existing, harness >>

\* Line 54: the carry loop's test; when it fails the outer loop goes on.
TailHead ==
    /\ pc = "tail"
    /\ IF TailCond(carry, k, i, size)
       THEN /\ pc' = "tail_read"
            /\ i' = i
       ELSE /\ i' = i + 1
            /\ pc' = "outer"
    /\ UNCHANGED << files, counters, size, j, k, carry, block_i, block_j,
                    existing, harness, lastAcc >>

\* Line 55.
TailRead ==
    /\ pc = "tail_read"
    /\ existing' = read_block(result, k)
    /\ reads' = reads + 1
    /\ outReads' = outReads + 1
    /\ lastAcc' = [op |-> "read", pos |-> k, val |-> existing']
    /\ pc' = "tail_write"
    /\ UNCHANGED << files, writes, tailSteps, size, i, j, k, carry, block_i,
                    block_j, harness >>

\* Lines 56-60.
TailWrite ==
    /\ pc = "tail_write"
    /\ LET sum       == existing + carry
           new_value == LowBlock(sum)
       IN  /\ carry' = CarryOut(sum)
           /\ writes' = writes + 1
           /\ tailSteps' = tailSteps + 1
           /\ lastAcc' = [op |-> "write", pos |-> k, val |-> new_value]
           /\ IF WriteFails(k, new_value)
              THEN /\ pc' = "raised"
                   /\ UNCHANGED << result, k >>
              ELSE /\ result' = write_block(result, k, new_value)
                   /\ k' = k + 1
                   /\ pc' = "tail"
    /\ UNCHANGED << num, reads, outReads, size, i, j, block_i, block_j,
                    existing, harness >>

Square ==
    \/ SquareOpen \/ OuterHead \/ InnerHead \/ InnerRead \/ InnerWrite
    \/ TailHead \/ TailRead \/ TailWrite

\* ----------------------------------------------------------- unit harness

\* num_to_file(n, "num.bin"), lines 75-80.
Encode ==
    /\ pc = "main"
    /\ num' = num_to_file(n)
    /\ pc' = "encoded"
    /\ UNCHANGED << result, counters, locals, harness, lastAcc >>

\* square("num.bin", "result.bin") on the file num_to_file wrote.
CallSquare ==
    /\ pc = "encoded"
    /\ pc' = "call"
    /\ UNCHANGED << files, counters, locals, harness, lastAcc >>

\* file_to_num("num.bin") right after num_to_file, lines 66-73; read_block
\* counts one read per block.
RoundTrip ==
    /\ pc = "encoded"
    /\ res' = file_to_num(num)
    /\ reads' = reads + get_file_size(num)
    /\ pc' = "roundtrip"
    /\ UNCHANGED << files, writes, outReads, tailSteps, locals, n, fromInt,
                    round, prev, lastAcc >>

\* file_to_num("result.bin") after square has returned.
DecodeResult ==
    /\ pc = "returned"
    /\ res' = file_to_num(result)
    /\ reads' = reads + get_file_size(result)
    /\ pc' = "decoded"
    /\ UNCHANGED << files, writes, outReads, tailSteps, locals, n, fromInt,
                    round, prev, lastAcc >>

Next == Encode \/ RoundTrip \/ CallSquare \/ DecodeResult \/ Square

Spec == Init /\ [][Next]_vars

\* The program is one thread that runs each statement after the last: a
\* call of square that can take a step takes it.
FairSpec == Spec /\ WF_vars(Square)

\* ------------------------------------------------------ measuring harness

\* Every file of at most MaxPairSize blocks drawn from BlockVals.
PairStores == UNION { [1..m -> BlockVals] : m \in 0..MaxPairSize }

\* Counters at 0 (lines 64-65), then one call of square on some operand file.
PairInit ==
    /\ Fresh
    /\ pc = "call" /\ fromInt = FALSE /\ n = << >>
    /\ num \in PairStores

\* The call has returned: note its size and counters, set the counters back
\* to 0 (lines 64-65) and call square on another operand file.
Remeasure ==
    /\ pc = "returned"
    /\ prev' = [size |-> size, reads |-> reads, writes |-> writes]
    /\ reads' = 0 /\ writes' = 0 /\ outReads' = 0 /\ tailSteps' = 0
    /\ size' = 0 /\ i' = 0 /\ j' = 0 /\ k' = 0 /\ carry' = 0
    /\ block_i' = 0 /\ block_j' = 0 /\ existing' = 0
    /\ result' = << >>
    /\ lastAcc' = NoAcc
    /\ num' \in PairStores
    /\ pc' = "call"
    /\ UNCHANGED << n, fromInt, round, res >>

PairNext == Square \/ Remeasure

PairSpec == PairInit /\ [][PairNext]_vars

\* ----------------------------------------------------- block-store harness

\* An empty file opened for reading and writing, counters at 0.
StoreInit ==
    /\ Fresh
    /\ pc = "api" /\ fromInt = FALSE /\ n = << >> /\ num = << >>

\* read_block(file, pos), lines 6-12, for any pos >= 0.
StoreRead ==
    /\ pc \in {"api", "raised"}
    /\ reads + writes < MaxOps
    /\ \E pos \in 0..MaxPos :
         /\ existing' = read_block(result, pos)
         /\ lastAcc' = [op |-> "read", pos |-> pos, val |-> existing']
    /\ reads' = reads + 1
    /\ outReads' = outReads + 1
    /\ pc' = "api"
    /\ UNCHANGED << files, writes, tailSteps, size, i, j, k, carry, block_i,
                    block_j, harness >>

\* write_block(file, pos, value), lines 14-19, for any pos >= 0 and any
\* value >= 0; the counter goes up before to_bytes can raise.
StoreWrite ==
    /\ pc \in {"api", "raised"}
    /\ reads + writes < MaxOps
    /\ \E pos \in 0..MaxPos, value \in WriteVals :
         /\ lastAcc' = [op |-> "write", pos |-> pos, val |-> value]
         /\ IF WriteFails(pos, value)
            THEN pc' = "raised" /\ result' = result
            ELSE pc' = "api" /\ result' = write_block(result, pos, value)
    /\ writes' = writes + 1
    /\ UNCHANGED << num, reads, outReads, tailSteps, locals, harness >>

StoreNext == StoreRead \/ StoreWrite

StoreSpec == StoreInit /\ [][StoreNext]_vars

\* ------------------------------------------------------------ driving loop

\* Line 83: num_to_file(3, "num.bin").
DriverInit ==
    /\ Fresh
    /\ pc = "main" /\ fromInt = TRUE /\ num = << >>
    /\ n = Decimal(<< 3 >>)

\* Line 86, and line 90 once the loop is over.
LoopHead ==
    /\ pc \in {"encoded", "printed"}
    /\ pc' = IF round < Rounds THEN "call" ELSE "done"
    /\ UNCHANGED << files, counters, locals, harness, lastAcc >>

\* Line 88 with nothing replaced: num.bin is left as it was.
OsReplace_keeps_operand ==
    /\ pc = "returned"
    /\ result' = << >>
    /\ pc' = "replaced"
    /\ UNCHANGED << num, counters, locals, harness, lastAcc >>

\* Line 88: os.replace("result.bin", "num.bin").
OsReplace ==
    /\ pc = "returned"
    /\ num' = result
    /\ result' = << >>
    /\ pc' = "replaced"
    /\ UNCHANGED << counters, locals, harness, lastAcc >>

\* Line 89: file_to_num("num.bin") for the print, then the next round.
PrintNum ==
    /\ pc = "replaced"
    /\ res' = file_to_num(num)
    /\ reads' = reads + get_file_size(num)
    /\ round' = round + 1
    /\ pc' = "printed"
    /\ UNCHANGED << files, writes, outReads, tailSteps, locals, n, fromInt,
                    prev, lastAcc >>

DriverNext == Encode \/ LoopHead \/ Square \/ OsReplace \/ PrintNum

DriverSpec == DriverInit /\ [][DriverNext]_vars

\* ----------------------------------------------------- claims, unit harness

\* A step that is a write_block on the output file.
IsWrite == writes' = writes + 1

\* A step that is a read_block on the output file.
IsOutRead == outReads' = outReads + 1

\* The term a write adds to the block it has just read: the product and the
\* carry in the inner loop, the carry alone in the carry loop.
Term == IF pc = "inner_write" THEN block_i * block_j + carry ELSE carry

\* C1: square on the file num_to_file(n) wrote leaves a file that file_to_num
\* decodes to n * n, for n = 0 (an empty file) too; for an operand file that
\* was there already the result decodes to the square of what it decodes to.
C1_SquareIsSquare ==
    pc = "decoded" =>
        /\ fromInt => res = IntMul(n, n)
        /\ res = IntMul(file_to_num(num), file_to_num(num))

C1_Witness ==
    /\ pc = "decoded" /\ fromInt /\ n = Decimal(<< 3, 0, 0 >>)
    /\ num = << 44, 1 >>
    /\ res = Decimal(<< 9, 0, 0, 0, 0 >>)

\* C4: file_to_num of the file num_to_file(n) wrote is n, and num_to_file(0)
\* leaves an empty file, which decodes to 0.
C4_RoundTrip ==
    /\ pc = "roundtrip" => res = n
    /\ (pc \in {"encoded", "roundtrip"} /\ n = << >>) => num = << >>

C4_Witness ==
    /\ pc = "roundtrip" /\ n = Decimal(<< 6, 5, 5, 3, 6 >>)
    /\ num = << 0, 0, 1 >> /\ res = n

\* C7: every call of square returns, and every run of the carry loop gets to
\* its test with carry = 0.
C7_SquareTerminates ==
    /\ (pc = "outer") ~> (pc = "returned")
    /\ (pc = "tail") ~> (pc = "tail" /\ carry = 0)

C7_Witness ==
    /\ pc = "returned" /\ size = 2 /\ tailSteps = 3
    /\ num = << 255, 255 >>

\* C8: each write_block on the output file comes right after one read_block
\* of the same block, no other access to the output file between them, and
\* writes the low block of the value read plus the term added; a read_block
\* on the output file never follows another one; so when square returns the
\* output file has been read as often as written.
C8_ReadThenWrite ==
    /\ [][IsWrite =>
            /\ lastAcc.op = "read"
            /\ lastAcc'.op = "write"
            /\ lastAcc'.pos = lastAcc.pos
            /\ lastAcc.val = read_block(result, lastAcc.pos)
            /\ lastAcc'.val = (lastAcc.val + Term) % (2 ^ (CHUNK_SIZE * 8))
            /\ read_block(result', lastAcc.pos) = lastAcc'.val]_vars
    /\ [][IsOutRead => lastAcc.op # "read" /\ lastAcc'.op = "read"]_vars
    /\ [](pc = "returned" => outReads = writes)

C8_Witness ==
    /\ pc = "tail" /\ lastAcc.op = "write" /\ tailSteps = 2
    /\ lastAcc.pos = 3 /\ size = 2 /\ i = 0

\* C9: each write_block on the output file goes to a block that is there or
\* to the block right after the last one; it never leaves a hole.
C9_NoHole ==
    [][IsWrite =>
         /\ lastAcc'.pos <= Len(result)
         /\ Len(result') = (IF lastAcc'.pos = Len(result)
                            THEN Len(result) + 1 ELSE Len(result))]_vars

C9_Witness ==
    /\ lastAcc.op = "write" /\ size = 3 /\ i = 2
    /\ lastAcc.pos = 4 /\ Len(result) = 6 /\ pc = "inner"

\* C10: for an operand of size >= 1 blocks whose last block is not zero,
\* the file square leaves has 2*size - 1 or 2*size blocks, the last of them
\* not zero: it is the file num_to_file writes for the square.
C10_CanonicalResult ==
    (pc = "returned" /\ size >= 1 /\ num[size] # 0) =>
        /\ Len(result) \in {2 * size - 1, 2 * size}
        /\ result[Len(result)] # 0
        /\ result = num_to_file(IntMul(file_to_num(num), file_to_num(num)))

C10_Witness ==
    /\ pc = "returned" /\ size = 3 /\ num[3] = 3 /\ Len(result) = 5
    /\ result[5] # 0

\* ------------------------------------------------ claims, measuring harness

\* s * (s + 1) / 2
Tri(s) == (s * (s + 1)) \div 2

\* C2 as stated: with the counters set back to 0 before the call, two calls
\* of square on operand files of the same size end with the same reads and
\* the same writes.
C2_SameSizeSameCounts ==
    (pc = "returned" /\ prev.size = size) =>
        (reads = prev.reads /\ writes = prev.writes)

\* C2 as amended: with the counters set back to 0 before the call, square
\* ends with writes = size*(size+1)/2 + t and reads = size*(size+1) + t, t
\* the number of carry-loop iterations the block values cause; so two calls
\* on operand files of the same size end with the same reads - writes, and
\* with the same reads and writes when they take as many carry-loop
\* iterations.
C2_CountsUpToTailSteps ==
    pc = "returned" =>
        /\ writes = Tri(size) + tailSteps
        /\ reads = 2 * Tri(size) + tailSteps
        /\ prev.size = size =>
              /\ reads - writes = prev.reads - prev.writes
              /\ reads - prev.reads = writes - prev.writes

C2_Witness ==
    /\ pc = "returned" /\ prev.size = size /\ size = 2
    /\ prev.writes = 3 /\ writes = 6 /\ prev.reads = 6 /\ reads = 9

\* ---------------------------------------------- claims, block-store harness

\* A step that is a read_block.
IsRead == reads' # reads

\* C3 as stated: write_block(pos, value) goes through for every pos >= 0 and
\* every value >= 0 and leaves value & BLOCK_MASK in block pos.
C3_WriteMasks ==
    lastAcc.op = "write" =>
        /\ pc # "raised"
        /\ read_block(result, lastAcc.pos) = lastAcc.val % (BLOCK_MASK + 1)

\* C3 as amended: write_block(pos, value) goes through for every pos >= 0
\* and every value in 0..BLOCK_MASK, leaves value (which is value &
\* BLOCK_MASK) in block pos and the file pos + 1 blocks long at least, and
\* keeps the other blocks that were there; for a value above BLOCK_MASK it
\* raises and leaves the file as it was; so every block of the file is in
\* 0..BLOCK_MASK, always.
C3_WriteStoresBlock ==
    /\ [][IsWrite =>
            LET pos   == lastAcc'.pos
                value == lastAcc'.val
            IN  IF value <= BLOCK_MASK
                THEN /\ pc' = "api"
                     /\ read_block(result', pos) = value
                     /\ value = value % (BLOCK_MASK + 1)
                     /\ Len(result') = (IF pos < Len(result)
                                        THEN Len(result) ELSE pos + 1)
                     /\ \A q \in 0..(Len(result) - 1) :
                            q # pos => read_block(result', q) = read_block(result, q)
                ELSE /\ pc' = "raised"
                     /\ result' = result]_vars
    /\ [](\A q \in 1..Len(result) : result[q] \in 0..BLOCK_MASK)

C3_Witness ==
    /\ pc = "api" /\ lastAcc = [op |-> "write", pos |-> 0, val |-> BLOCK_MASK]
    /\ result = << BLOCK_MASK, 0, 1 >>

\* C6: read_block(pos) returns block pos when the file has more than pos
\* blocks and 0 when it has not; either way reads goes up by one and the
\* file and writes stay as they were.
C6_ReadFrame ==
    [][IsRead =>
         /\ lastAcc'.op = "read"
         /\ existing' = (IF lastAcc'.pos < Len(result)
                         THEN result[lastAcc'.pos + 1] ELSE 0)
         /\ lastAcc'.val = existing'
         /\ reads' = reads + 1
         /\ result' = result
         /\ writes' = writes
         /\ pc' = "api"]_vars

C6_Witness ==
    /\ pc = "api" /\ lastAcc = [op |-> "read", pos |-> 2, val |-> 0]
    /\ result = << 0, BLOCK_MASK >> /\ existing = 0 /\ reads = 2

\* ------------------------------------------------------ claims, driving loop

\* What the k-th round prints.
Printed(r) ==
    CASE r = 1 -> Decimal(<< 9 >>)
      [] r = 2 -> Decimal(<< 8, 1 >>)
      [] r = 3 -> Decimal(<< 6, 5, 6, 1 >>)
      [] r = 4 -> Decimal(<< 4, 3, 0, 4, 6, 7, 2, 1 >>)
      [] r = 5 -> Decimal(<< 1, 8, 5, 3, 0, 2, 0, 1, 8, 8, 8, 5, 1, 8, 4, 1 >>)
      [] r = 6 -> Decimal(<< 3, 4, 3, 3, 6, 8, 3, 8, 2, 0, 2, 9, 2, 5, 1, 2, 4, 8, 4, 6, 5, 7, 8, 4, 9, 0, 8, 9, 2, 8, 1 >>)

\* C5: starting from 3, the k-th round of the driving loop (k = 1..6) leaves
\* a num.bin that decodes to 3^(2^k): 9, 81, 6561, 43046721,
\* 1853020188851841, 3433683820292512484657849089281.
C5_DrivingLoop ==
    pc = "printed" => (round \in 1..Rounds /\ res = Printed(round))

C5_Witness ==
    /\ pc = "printed" /\ round = 6
    /\ res = Decimal(<< 3, 4, 3, 3, 6, 8, 3, 8, 2, 0, 2, 9, 2, 5, 1, 2, 4, 8, 4, 6, 5, 7, 8, 4, 9, 0, 8, 9, 2, 8, 1 >>)
    /\ Len(num) = 13

====
